---- MODULE Spec2Model ----
(***************************************************************************)
(* candyworks (src/src/main.rs): exploration of the baskets reachable by   *)
(* trading candies, and the route query over the explored table.           *)
(*                                                                         *)
(* Rust values are modelled as follows:                                    *)
(*   Candies                      a record of the five i32 counts          *)
(*   Trade                        [give |-> Candies, receive |-> Candies]  *)
(*   Option<T>                    None == <<>>, Some(x) == <<x>>           *)
(*   (Candies, Option<(usize, Trade)>)   <<candies, parent>>, with         *)
(*                                parent == Some(<<index, trade>>)         *)
(*   Vec<T>, VecDeque<T>          sequences; Vec index i is seq[i + 1],    *)
(*                                the deque's back is the last element     *)
(*   HashSet<Candies>             a set                                    *)
(***************************************************************************)
EXTENDS Integers, Sequences, FiniteSets

VARIABLES
    candies,        \* CandyWorks.candies: the start basket
    max_candies,    \* CandyWorks.max_candies: the cap (u32)
    trades,         \* CandyWorks.trades: custom rules, then the standard rules
    combinations,   \* CandyWorks.combinations: the table of the last explore()
    pc,             \* "new" | "explore" (inside the while loop) | "done"
    collections,    \* explore(): the table under construction
    known_sets,     \* explore(): the baskets seen so far
    queue,          \* explore(): the frontier of table indices
    last_index,     \* explore(): index, the table index popped last (-1 before the first pop)
    expanded,       \* history: the table indices this explore() has popped
    call,           \* the call answered last: "none" | "find_optimal_route" |
                    \* "len_from_combination" | "stadistics" | "trade"
    target,         \* find_optimal_route's argument
    route,          \* find_optimal_route's return value
    index_arg,      \* len_from_combination's argument
    len_ret,        \* len_from_combination's return value
    outcome,        \* stadistics(): "none" | "no combinations" | "printed" | "panic"
    stats,          \* stadistics(): the numbers printed
    trade_arg,      \* Candies::trade's argument
    trade_ret       \* Candies::trade's return value

\* the arguments and results of the calls other than explore()
answers == <<call, target, route, index_arg, len_ret, outcome, stats,
             trade_arg, trade_ret>>

vars == <<candies, max_candies, trades, combinations, pc, collections,
          known_sets, queue, last_index, expanded, answers>>

----------------------------------------------------------------------------
(* Bounds of the model *)

\* the start basket holds -1..MaxEggs eggs
MaxEggs == 3
\* the cap ranges over 0..MaxCap
MaxCap == 3
\* at most MaxCustom custom rules are passed to new()
MaxCustom == 2
\* len_from_combination is asked about the indices 0..MaxIndex
MaxIndex == 3

----------------------------------------------------------------------------
(* Option<T> *)

None == <<>>
Some(x) == <<x>>

----------------------------------------------------------------------------
(* Candies *)

Candy(e, w, c, f, m) ==
    [eggs |-> e, worms |-> w, cakes |-> c, fishes |-> f, meats |-> m]

\* Candies::none
none == Candy(0, 0, 0, 0, 0)

\* Candies::add_by_index
add_by_index(self, index, value) ==
    CASE index = 0 -> [self EXCEPT !.eggs = @ + value]
      [] index = 1 -> [self EXCEPT !.worms = @ + value]
      [] index = 2 -> [self EXCEPT !.cakes = @ + value]
      [] index = 3 -> [self EXCEPT !.fishes = @ + value]
      [] index = 4 -> [self EXCEPT !.meats = @ + value]
      [] OTHER -> self

\* Candies::trade without the test of lines 27-33: no trade is rejected
trade_unchecked(self, t) ==
    Some([eggs   |-> self.eggs + t.receive.eggs - t.give.eggs,
          meats  |-> self.meats + t.receive.meats - t.give.meats,
          fishes |-> self.fishes + t.receive.fishes - t.give.fishes,
          worms  |-> self.worms + t.receive.worms - t.give.worms,
          cakes  |-> self.cakes + t.receive.cakes - t.give.cakes])

\* Candies::trade, with a wrong sign on the worms given
trade_wrong_sign(self, t) ==
    LET result == [eggs   |-> self.eggs + t.receive.eggs - t.give.eggs,
                   meats  |-> self.meats + t.receive.meats - t.give.meats,
                   fishes |-> self.fishes + t.receive.fishes - t.give.fishes,
                   worms  |-> self.worms + t.receive.worms + t.give.worms,
                   cakes  |-> self.cakes + t.receive.cakes - t.give.cakes]
    IN  IF \/ result.eggs < 0
           \/ result.meats < 0
           \/ result.fishes < 0
           \/ result.worms < 0
           \/ result.cakes < 0
        THEN None
        ELSE Some(result)

\* Candies::trade
trade(self, t) ==
    LET result == [eggs   |-> self.eggs + t.receive.eggs - t.give.eggs,
                   meats  |-> self.meats + t.receive.meats - t.give.meats,
                   fishes |-> self.fishes + t.receive.fishes - t.give.fishes,
                   worms  |-> self.worms + t.receive.worms - t.give.worms,
                   cakes  |-> self.cakes + t.receive.cakes - t.give.cakes]
    IN  IF \/ result.eggs < 0
           \/ result.meats < 0
           \/ result.fishes < 0
           \/ result.worms < 0
           \/ result.cakes < 0
        THEN None
        ELSE Some(result)

\* Candies::total
total(self) == self.eggs + self.worms + self.cakes + self.fishes + self.meats

\* Candies::contains, comparing strictly
contains_strict(self, other) ==
    /\ self.eggs > other.eggs
    /\ self.meats > other.meats
    /\ self.fishes > other.fishes
    /\ self.worms > other.worms
    /\ self.cakes > other.cakes

\* Candies::contains
contains(self, other) ==
    /\ self.eggs >= other.eggs
    /\ self.meats >= other.meats
    /\ self.fishes >= other.fishes
    /\ self.worms >= other.worms
    /\ self.cakes >= other.cakes

----------------------------------------------------------------------------
(* Trade *)

\* Trade::standard_trade
standard_trade(a, b) ==
    [give |-> add_by_index(none, a, 3), receive |-> add_by_index(none, b, 1)]

\* CandyWorks::new, the two nested loops: for i in 0..5 { for j in 0..5 { .. } }
RECURSIVE push_standard(_, _, _)
push_standard(ts, i, j) ==
    IF i >= 5 THEN ts
    ELSE IF j >= 5 THEN push_standard(ts, i + 1, 0)
    ELSE push_standard(IF i # j THEN Append(ts, standard_trade(i, j)) ELSE ts,
                       i, j + 1)

\* CandyWorks::new: the rule list built from the custom rules
new_trades(custom_trades) == push_standard(custom_trades, 0, 0)

\* `self.max_candies as i32`: the u32 cap reinterpreted as an i32
as_i32(u) == IF u > 2147483647 THEN (u - 2147483647) - 2147483647 - 2 ELSE u

----------------------------------------------------------------------------
(* The inputs the model draws from *)

\* custom rules: an egg for two worms, a worm for a cake
EWW == [give |-> Candy(1, 0, 0, 0, 0), receive |-> Candy(0, 2, 0, 0, 0)]
WC == [give |-> Candy(0, 1, 0, 0, 0), receive |-> Candy(0, 0, 1, 0, 0)]
CustomPool == {EWW, WC}

RECURSIVE SeqsUpTo(_, _)
SeqsUpTo(S, n) ==
    IF n = 0 THEN {<<>>}
    ELSE LET shorter == SeqsUpTo(S, n - 1)
         IN  shorter \cup {Append(s, x) : s \in shorter, x \in S}

CustomLists == SeqsUpTo(CustomPool, MaxCustom)
Starts == {Candy(e, w, 0, 0, 0) : e \in -1..MaxEggs, w \in 0..1}
Caps == 0..MaxCap
Targets == {Candy(0, w, c, 0, 0) : w \in 0..2, c \in 0..1}

----------------------------------------------------------------------------
(* CandyWorks::explore *)

\* line 156 with < for <=: a basket whose total is the cap is turned away
admit_below_cap(new_candies, known) ==
    /\ total(new_candies) < as_i32(max_candies)
    /\ new_candies \notin known

\* line 156 without the comparison with the cap
admit_any_total(new_candies, known) == new_candies \notin known

\* line 156: the test that admits a new basket
admit(new_candies, known) ==
    /\ total(new_candies) <= as_i32(max_candies)
    /\ new_candies \notin known

\* lines 153-161 going through the rule list from its last rule to its first
RECURSIVE for_trades_reversed(_, _, _, _, _)
for_trades_reversed(k, index, c, new_collections, known) ==
    IF k > Len(trades)
    THEN [new_collections |-> new_collections, known_sets |-> known]
    ELSE LET t == trades[Len(trades) + 1 - k]
             r == trade(c, t)
         IN  IF r # None /\ admit(r[1], known)
             THEN for_trades_reversed(k + 1, index, c,
                                      Append(new_collections, <<r[1], Some(<<index, t>>)>>),
                                      known \cup {r[1]})
             ELSE for_trades_reversed(k + 1, index, c, new_collections, known)

\* lines 153-161 recording the new entry's own index as its parent (line 157)
RECURSIVE for_trades_own_index(_, _, _, _, _)
for_trades_own_index(k, index, c, new_collections, known) ==
    IF k > Len(trades)
    THEN [new_collections |-> new_collections, known_sets |-> known]
    ELSE LET t == trades[k]
             r == trade(c, t)
             own == Len(collections) + Len(new_collections)
         IN  IF r # None /\ admit(r[1], known)
             THEN for_trades_own_index(k + 1, index, c,
                                       Append(new_collections, <<r[1], Some(<<own, t>>)>>),
                                       known \cup {r[1]})
             ELSE for_trades_own_index(k + 1, index, c, new_collections, known)

\* lines 153-161 without line 158: the new basket is not added to the seen-set
RECURSIVE for_trades_no_insert(_, _, _, _, _)
for_trades_no_insert(k, index, c, new_collections, known) ==
    IF k > Len(trades)
    THEN [new_collections |-> new_collections, known_sets |-> known]
    ELSE LET t == trades[k]
             r == trade(c, t)
         IN  IF r # None /\ admit(r[1], known)
             THEN for_trades_no_insert(k + 1, index, c,
                                       Append(new_collections, <<r[1], Some(<<index, t>>)>>),
                                       known)
             ELSE for_trades_no_insert(k + 1, index, c, new_collections, known)

\* lines 153-161: for trade in &self.trades { .. }, from rule k on; yields the
\* new entries and the seen-set
RECURSIVE for_trades(_, _, _, _, _)
for_trades(k, index, c, new_collections, known) ==
    IF k > Len(trades)
    THEN [new_collections |-> new_collections, known_sets |-> known]
    ELSE LET t == trades[k]
             r == trade(c, t)
         IN  IF r # None /\ admit(r[1], known)
             THEN for_trades(k + 1, index, c,
                             Append(new_collections, <<r[1], Some(<<index, t>>)>>),
                             known \cup {r[1]})
             ELSE for_trades(k + 1, index, c, new_collections, known)

\* line 150 reading the back of the deque without removing it
pop_back_kept(q) == <<q[Len(q)], q>>

\* line 150: queue.pop_back() on a non-empty deque: <<the index popped, the rest>>
pop_back(q) == <<q[Len(q)], SubSeq(q, 1, Len(q) - 1)>>

\* line 162 over the range 1..n: the first new index is left out
extend_from_one(q, n, len) == q \o [i \in 1..(n - 1) |-> i + len]

\* line 162: queue.extend((0..n).map(|i| i + len)), pushing at the back
extend(q, n, len) == q \o [i \in 1..n |-> (i - 1) + len]

no_stats == [count |-> 0, min_candies |-> 0, max_candies |-> 0, max_trades |-> 0]
no_trade == [give |-> none, receive |-> none]
\* no call has been answered since explore() began
NoAnswer ==
    /\ call = "none"
    /\ target = none
    /\ route = None
    /\ index_arg = 0
    /\ len_ret = 0
    /\ outcome = "none"
    /\ stats = no_stats
    /\ trade_arg = no_trade
    /\ trade_ret = None

\* line 145 going on from the table of the last explore(), when there is one
first_collections_kept ==
    IF combinations = <<>> THEN << <<candies, None>> >> ELSE combinations

\* line 145: vec![(self.candies, None)]
first_collections == << <<candies, None>> >>

\* lines 145-149
ExploreBegin ==
    /\ pc \in {"new", "done"}
    /\ collections' = first_collections
    /\ known_sets' = {candies}
    /\ queue' = <<0>>
    /\ last_index' = -1
    /\ expanded' = {}
    /\ pc' = "explore"
    /\ call' = "none"
    /\ target' = none
    /\ route' = None
    /\ index_arg' = 0
    /\ len_ret' = 0
    /\ outcome' = "none"
    /\ stats' = no_stats
    /\ trade_arg' = no_trade
    /\ trade_ret' = None
    /\ UNCHANGED <<candies, max_candies, trades, combinations>>

\* lines 150-164: one iteration of the while loop
\* line 163 with the new entries put in front of the table
append_front(v, w) == w \o v

\* Vec::append (line 163): the entries of w are moved to the end of v
append(v, w) == v \o w

ExploreStep ==
    /\ pc = "explore"
    /\ queue # <<>>
    /\ \E popped \in {pop_back(queue)} :
          LET index == popped[1]
              c == collections[index + 1][1]
          IN  \E out \in {for_trades(1, index, c, <<>>, known_sets)} :
                 /\ queue' = extend(popped[2], Len(out.new_collections), Len(collections))
                 /\ collections' = append(collections, out.new_collections)
                 /\ known_sets' = out.known_sets
                 /\ last_index' = index
                 /\ expanded' = expanded \cup {index}
    /\ UNCHANGED <<candies, max_candies, trades, combinations, pc, answers>>

\* lines 150, 165: the frontier is empty, the table is stored
ExploreEnd ==
    /\ pc = "explore"
    /\ queue = <<>>
    /\ combinations' = collections
    /\ collections' = <<>>
    /\ known_sets' = {}
    /\ pc' = "done"
    /\ UNCHANGED <<candies, max_candies, trades, queue, last_index, expanded,
                   answers>>

----------------------------------------------------------------------------
(* Iterator::max and Iterator::min over a non-empty set of integers *)

Max(S) == CHOOSE x \in S : \A y \in S : y <= x

Min(S) == CHOOSE x \in S : \A y \in S : x <= y

----------------------------------------------------------------------------
(* CandyWorks::len_from_combination *)

\* lines 202-209 counting only the steps to a parent
RECURSIVE len_walk_steps(_, _)
len_walk_steps(current, len) ==
    IF current + 1 \notin DOMAIN combinations THEN len
    ELSE LET parent == combinations[current + 1][2]
         IN  IF parent # None THEN len_walk_steps(parent[1][1], len + 1)
             ELSE len

\* CandyWorks::len_from_combination counting trades instead of entries
len_from_combination_steps(index) == len_walk_steps(index, 0)

\* lines 202-209: the while loop
RECURSIVE len_walk(_, _)
len_walk(current, len) ==
    IF current + 1 \notin DOMAIN combinations THEN len
    ELSE LET parent == combinations[current + 1][2]
         IN  IF parent # None THEN len_walk(parent[1][1], len + 1)
             ELSE len + 1

\* CandyWorks::len_from_combination
len_from_combination(index) == len_walk(index, 0)

LenFromCombination ==
    /\ pc \in {"new", "done"}
    /\ \E index \in 0..MaxIndex :
          /\ index_arg' = index
          /\ len_ret' = len_from_combination(index)
    /\ call' = "len_from_combination"
    /\ target' = none
    /\ route' = None
    /\ outcome' = "none"
    /\ stats' = no_stats
    /\ UNCHANGED <<candies, max_candies, trades, combinations, pc,
                   collections, known_sets, queue, last_index, expanded,
                   trade_arg, trade_ret>>

----------------------------------------------------------------------------
(* CandyWorks::stadistics *)

\* lines 189-194: the chain lengths the filter and the map hand to .max()
trade_counts ==
    {len_from_combination(combinations[i][2][1][1]) :
        i \in {n \in DOMAIN combinations : combinations[n][2] # None}}

\* CandyWorks::stadistics: <<outcome, the numbers printed>>; .max().unwrap() on
\* no element panics after the first three numbers are out
stadistics ==
    IF combinations = <<>> THEN <<"no combinations", no_stats>>
    ELSE LET totals == {total(combinations[i][1]) : i \in DOMAIN combinations}
             printed == [count |-> Len(combinations),
                         min_candies |-> Min(totals),
                         max_candies |-> Max(totals),
                         max_trades |-> 0]
         IN  IF trade_counts = {} THEN <<"panic", printed>>
             ELSE <<"printed", [printed EXCEPT !.max_trades = Max(trade_counts)]>>

Stadistics ==
    /\ pc \in {"new", "done"}
    /\ outcome' = stadistics[1]
    /\ stats' = stadistics[2]
    /\ call' = "stadistics"
    /\ target' = none
    /\ route' = None
    /\ index_arg' = 0
    /\ len_ret' = 0
    /\ UNCHANGED <<candies, max_candies, trades, combinations, pc,
                   collections, known_sets, queue, last_index, expanded,
                   trade_arg, trade_ret>>

----------------------------------------------------------------------------
(* CandyWorks::find_optimal_route *)

Reverse(s) == [i \in 1..Len(s) |-> s[Len(s) + 1 - i]]

\* lines 233-236: the walk up the parents, pushing each trade
RECURSIVE route_walk(_, _)
route_walk(current, result) ==
    IF current = None THEN result
    ELSE route_walk(combinations[current[1][1] + 1][2],
                    Append(result, current[1][2]))

\* find_optimal_route keeping the candidates of the smallest total (line 228)
find_optimal_route_poorest(tg) ==
    IF contains(candies, tg) THEN Some(<<>>)
    ELSE LET holds(e) == contains(e[1], tg)
             candidates == SelectSeq(combinations, holds)
         IN  IF candidates = <<>> THEN None
             ELSE LET max == Min({total(candidates[i][1]) : i \in 1..Len(candidates)})
                      most(e) == total(e[1]) = max
                      retained == SelectSeq(candidates, most)
                      result == route_walk(retained[1][2], <<>>)
                  IN  Some(Reverse(result))

\* find_optimal_route without result.reverse() (line 237)
find_optimal_route_unreversed(tg) ==
    IF contains(candies, tg) THEN Some(<<>>)
    ELSE LET holds(e) == contains(e[1], tg)
             candidates == SelectSeq(combinations, holds)
         IN  IF candidates = <<>> THEN None
             ELSE LET max == Max({total(candidates[i][1]) : i \in 1..Len(candidates)})
                      most(e) == total(e[1]) = max
                      retained == SelectSeq(candidates, most)
                      result == route_walk(retained[1][2], <<>>)
                  IN  Some(result)

\* find_optimal_route without the early return of lines 214-216
find_optimal_route_no_early_return(tg) ==
    LET holds(e) == contains(e[1], tg)
        candidates == SelectSeq(combinations, holds)
    IN  IF candidates = <<>> THEN None
        ELSE LET max == Max({total(candidates[i][1]) : i \in 1..Len(candidates)})
                 most(e) == total(e[1]) = max
                 retained == SelectSeq(candidates, most)
                 result == route_walk(retained[1][2], <<>>)
             IN  Some(Reverse(result))

\* CandyWorks::find_optimal_route
find_optimal_route(tg) ==
    IF contains(candies, tg) THEN Some(<<>>)
    ELSE LET holds(e) == contains(e[1], tg)
             candidates == SelectSeq(combinations, holds)
         IN  IF candidates = <<>> THEN None
             ELSE LET max == Max({total(candidates[i][1]) : i \in 1..Len(candidates)})
                      most(e) == total(e[1]) = max
                      retained == SelectSeq(candidates, most)
                      result == route_walk(retained[1][2], <<>>)
                  IN  Some(Reverse(result))

FindOptimalRoute ==
    /\ pc \in {"new", "done"}
    /\ \E tg \in Targets :
          /\ target' = tg
          /\ route' = find_optimal_route(tg)
    /\ call' = "find_optimal_route"
    /\ index_arg' = 0
    /\ len_ret' = 0
    /\ outcome' = "none"
    /\ stats' = no_stats
    /\ UNCHANGED <<candies, max_candies, trades, combinations, pc,
                   collections, known_sets, queue, last_index, expanded,
                   trade_arg, trade_ret>>

\* main, lines 294-298: the route replayed from `previous`; None stands for the
\* panic of unwrap()
RECURSIVE replay(_, _)
replay(previous, r) ==
    IF r = <<>> THEN Some(previous)
    ELSE LET next == trade(previous, Head(r))
         IN  IF next = None THEN None ELSE replay(next[1], Tail(r))

----------------------------------------------------------------------------
(* The program *)

Init ==
    /\ candies \in Starts
    /\ max_candies \in Caps
    /\ \E custom_trades \in CustomLists : trades = new_trades(custom_trades)
    /\ combinations = <<>>
    /\ pc = "new"
    /\ collections = <<>>
    /\ known_sets = {}
    /\ queue = <<>>
    /\ last_index = -1
    /\ expanded = {}
    /\ NoAnswer

Next ==
    \/ ExploreBegin
    \/ ExploreStep
    \/ ExploreEnd
    \/ FindOptimalRoute
    \/ LenFromCombination
    \/ Stadistics

Spec == Init /\ [][Next]_vars

(* Candies::trade on its own: a basket, a rule of the list, the result *)

\* the baskets trade() is called on: counts that may be negative, and enough
\* fishes or meats for a standard trade
TradeBaskets ==
    {Candy(e, w, c, f, m) :
        e \in -1..MaxEggs, w \in -1..1, c \in 0..1, f \in {0, 3}, m \in {0, 3}}

TradeInit ==
    /\ candies \in TradeBaskets
    /\ max_candies = 0
    /\ \E custom_trades \in CustomLists : trades = new_trades(custom_trades)
    /\ combinations = <<>>
    /\ pc = "new"
    /\ collections = <<>>
    /\ known_sets = {}
    /\ queue = <<>>
    /\ last_index = -1
    /\ expanded = {}
    /\ NoAnswer

\* self.trade(&trade), as explore() (line 154) and main (line 297) call it
TradeCall ==
    /\ \E k \in DOMAIN trades :
          /\ trade_arg' = trades[k]
          /\ trade_ret' = trade(candies, trades[k])
    /\ call' = "trade"
    /\ UNCHANGED <<candies, max_candies, trades, combinations, pc, collections,
                   known_sets, queue, last_index, expanded,
                   target, route, index_arg, len_ret, outcome, stats>>

TradeNext == TradeCall

TradeSpec == TradeInit /\ [][TradeNext]_vars

(* The program with custom rules of which two give the same basket *)

\* a custom rule with the effect of EWW: two eggs for an egg and two worms
EEEWW == [give |-> Candy(2, 0, 0, 0, 0), receive |-> Candy(1, 2, 0, 0, 0)]

OrderPool == {EWW, EEEWW}

OrderLists == SeqsUpTo(OrderPool, MaxCustom)

\* caps that leave room for a trade that adds a candy to the largest start
OrderCaps == 0..(MaxCap + 1)

OrderInit ==
    /\ candies \in Starts
    /\ max_candies \in OrderCaps
    /\ \E custom_trades \in OrderLists : trades = new_trades(custom_trades)
    /\ combinations = <<>>
    /\ pc = "new"
    /\ collections = <<>>
    /\ known_sets = {}
    /\ queue = <<>>
    /\ last_index = -1
    /\ expanded = {}
    /\ NoAnswer

OrderSpec == OrderInit /\ [][Next]_vars

\* explore() runs to completion once called: nothing suspends its loop
FairSpec == Spec /\ WF_vars(ExploreStep) /\ WF_vars(ExploreEnd)

----------------------------------------------------------------------------
(* The puzzle itself, stated without the program: baskets, valid trades,   *)
(* the baskets reachable from the start and their distance in trades.      *)

\* B - give + receive, field by field
Apply(b, r) ==
    Candy(b.eggs - r.give.eggs + r.receive.eggs,
          b.worms - r.give.worms + r.receive.worms,
          b.cakes - r.give.cakes + r.receive.cakes,
          b.fishes - r.give.fishes + r.receive.fishes,
          b.meats - r.give.meats + r.receive.meats)

NonNegative(b) ==
    b.eggs >= 0 /\ b.worms >= 0 /\ b.cakes >= 0 /\ b.fishes >= 0 /\ b.meats >= 0

Sum(b) == b.eggs + b.worms + b.cakes + b.fishes + b.meats

Covers(b, t) ==
    /\ b.eggs >= t.eggs
    /\ b.worms >= t.worms
    /\ b.cakes >= t.cakes
    /\ b.fishes >= t.fishes
    /\ b.meats >= t.meats

\* a valid trade: the result is non-negative and within the cap
ValidTrade(b, r) == NonNegative(Apply(b, r)) /\ Sum(Apply(b, r)) <= max_candies

Successors(b) ==
    {Apply(b, trades[k]) : k \in {n \in DOMAIN trades : ValidTrade(b, trades[n])}}

\* the pairs <<basket, least number of valid trades from the start>>, layer by layer
RECURSIVE Layers(_, _, _)
Layers(frontier, seen, d) ==
    IF frontier = {} THEN {}
    ELSE LET next == UNION {Successors(b) : b \in frontier} \ seen
         IN  {<<b, d>> : b \in frontier} \cup Layers(next, seen \cup next, d + 1)

Distances == Layers({candies}, {candies}, 0)
Reachable == {p[1] : p \in Distances}

\* the rules replayed from b, each result non-negative: <<the final basket>>, or
\* <<>> when a trade is rejected
RECURSIVE Replayed(_, _)
Replayed(b, rs) ==
    IF rs = <<>> THEN <<b>>
    ELSE IF NonNegative(Apply(b, Head(rs))) THEN Replayed(Apply(b, Head(rs)), Tail(rs))
    ELSE <<>>

\* the same, each trade a rule of the list and valid within the cap
RECURSIVE Traded(_, _)
Traded(b, rs) ==
    IF rs = <<>> THEN <<b>>
    ELSE IF (\E k \in DOMAIN trades : trades[k] = Head(rs)) /\ ValidTrade(b, Head(rs))
         THEN Traded(Apply(b, Head(rs)), Tail(rs))
    ELSE <<>>

(* Reading a table T of entries <<basket, parent>> *)

Indices(T) == 0..(Len(T) - 1)
BasketAt(T, i) == T[i + 1][1]
IsRoot(T, i) == T[i + 1][2] = <<>>
ParentIndex(T, i) == T[i + 1][2][1][1]
ParentRule(T, i) == T[i + 1][2][1][2]
Baskets(T) == {BasketAt(T, i) : i \in Indices(T)}

\* the number of trades on the parent chain of entry i
RECURSIVE ChainTrades(_, _)
ChainTrades(T, i) ==
    IF IsRoot(T, i) THEN 0 ELSE 1 + ChainTrades(T, ParentIndex(T, i))

\* the rules on the parent chain of entry i, in root-to-entry order
RECURSIVE ChainRules(_, _)
ChainRules(T, i) ==
    IF IsRoot(T, i) THEN <<>>
    ELSE Append(ChainRules(T, ParentIndex(T, i)), ParentRule(T, i))

\* entry i came from entry p by a rule that stands twice in the rule list
ByDuplicateRule(T, i) ==
    /\ ~IsRoot(T, i)
    /\ \E k1, k2 \in DOMAIN trades :
          k1 < k2 /\ trades[k1] = trades[k2] /\ trades[k1] = ParentRule(T, i)

\* some rule would take entry i's basket over the cap
PrunedByCap(T, i) ==
    \E k \in DOMAIN trades :
        /\ NonNegative(Apply(BasketAt(T, i), trades[k]))
        /\ Sum(Apply(BasketAt(T, i), trades[k])) > max_candies

----------------------------------------------------------------------------
(* Claims *)

\* C1: after explore(), the number of trades on each entry's parent chain is the
\* least number of valid trades that reach its basket from the start basket.
C1_ChainIsShortest ==
    pc = "done" =>
        LET dist == Distances
        IN  \A i \in Indices(combinations) :
                <<BasketAt(combinations, i), ChainTrades(combinations, i)>> \in dist

\* C3: after explore(), the baskets of the table are exactly the reachable
\* baskets: the start, and all that valid within-cap trades lead to from it.
C3_TableIsReachable ==
    pc = "done" => Baskets(combinations) = Reachable

\* C3 witness: explore() has finished a table of several baskets, one of which
\* a rule would have taken over the cap
C3_Witness ==
    /\ pc = "done"
    /\ Len(combinations) >= 4
    /\ \E i \in Indices(combinations) : PrunedByCap(combinations, i)

\* C4: during explore() and after it, no two entries of the table hold the
\* same basket, also when the rule list holds a rule twice.
C4_BasketsDistinct ==
    /\ \A i, j \in Indices(collections) :
          i # j => BasketAt(collections, i) # BasketAt(collections, j)
    /\ \A i, j \in Indices(combinations) :
          i # j => BasketAt(combinations, i) # BasketAt(combinations, j)

\* C4 witness: in the middle of explore(), an entry made by a rule that the rule
\* list holds twice
C4_Witness ==
    /\ pc = "explore"
    /\ queue # <<>>
    /\ Len(collections) >= 3
    /\ \E i \in Indices(collections) : ByDuplicateRule(collections, i)

\* C5: replaying the rules of an entry's parent chain from the start basket,
\* root first, rejects no trade and ends in the entry's basket.
C5_ReplayGivesBasket ==
    /\ \A i \in Indices(collections) :
          Replayed(candies, ChainRules(collections, i)) = <<BasketAt(collections, i)>>
    /\ \A i \in Indices(combinations) :
          Replayed(candies, ChainRules(combinations, i)) = <<BasketAt(combinations, i)>>

\* C5 witness: a finished table with an entry three trades away from the root
C5_Witness ==
    /\ pc = "done"
    /\ \E i \in Indices(combinations) : ChainTrades(combinations, i) >= 3

\* C2 (as claimed): a route returned after explore() uses no more trades than
\* any sequence of valid trades from the start to a basket containing the target.
C2_RouteIsCheapest ==
    (call = "find_optimal_route" /\ pc = "done" /\ route # None) =>
        \A p \in Distances : Covers(p[1], target) => Len(route[1]) <= p[2]

\* C2 (amended): a route returned after explore() is a sequence of rules of the
\* list, each trade valid within the cap, leading from the start to a basket
\* that contains the target; when the route is not empty, no reachable basket
\* containing the target has a larger total than the one the route ends in.
C2_RouteIsValidAndRichest ==
    (call = "find_optimal_route" /\ pc = "done" /\ route # None) =>
        LET end == Traded(candies, route[1])
        IN  /\ end # <<>>
            /\ Covers(end[1], target)
            /\ route[1] # <<>> =>
                  \A b \in Reachable : Covers(b, target) => Sum(b) <= Sum(end[1])

\* C2 witness: a returned route of several trades, where a reachable basket
\* with a smaller total, fewer trades away, contains the target too
C2_Witness ==
    /\ call = "find_optimal_route"
    /\ pc = "done"
    /\ route # None
    /\ Len(route[1]) >= 2
    /\ \E p \in Distances :
          /\ Covers(p[1], target)
          /\ p[2] < Len(route[1])
          /\ Sum(p[1]) < Sum(Traded(candies, route[1])[1])

\* C6: explore(), once begun, ends: the frontier empties and the table is stored.
C6_ExploreTerminates == (pc = "explore") ~> (pc = "done")

\* C6 witness: an explore() that met the cap and ended with a table of several entries
C6_Witness ==
    /\ pc = "done"
    /\ call = "none"
    /\ Len(combinations) >= 6
    /\ \E i \in Indices(combinations) : PrunedByCap(combinations, i)

\* among the entries of T that contain t, those of the largest total
Richest(T, t) ==
    {i \in Indices(T) :
        /\ Covers(BasketAt(T, i), t)
        /\ \A j \in Indices(T) :
              Covers(BasketAt(T, j), t) => Sum(BasketAt(T, j)) <= Sum(BasketAt(T, i))}

First(S) == CHOOSE i \in S : \A j \in S : i <= j

\* C7: when the start does not contain the target and some entry does, the
\* route returned is the parent chain's rules of the first entry, in table
\* order, among the containing entries of the largest total; replayed by
\* trade() from the start it is accepted at every step and ends in that
\* entry's basket, which contains the target.
C7_RouteIsChainOfFirstRichest ==
    (/\ call = "find_optimal_route"
     /\ ~Covers(candies, target)
     /\ \E i \in Indices(combinations) : Covers(BasketAt(combinations, i), target)) =>
        LET chosen == First(Richest(combinations, target))
        IN  /\ route = Some(ChainRules(combinations, chosen))
            /\ replay(candies, route[1]) = Some(BasketAt(combinations, chosen))
            /\ Covers(BasketAt(combinations, chosen), target)

\* C7 witness: a route of several different rules, chosen among several
\* containing entries of the same largest total
C7_Witness ==
    /\ call = "find_optimal_route"
    /\ ~Covers(candies, target)
    /\ Cardinality(Richest(combinations, target)) >= 2
    /\ route # None
    /\ Len(route[1]) >= 2
    /\ route[1][1] # route[1][Len(route[1])]

\* every rule of the list is rejected on the start basket
NoRuleApplies == \A k \in DOMAIN trades : ~NonNegative(Apply(candies, trades[k]))

\* C8: find_optimal_route returns None exactly when neither the start nor any
\* entry of the table contains the target; and when no rule applies to the
\* start, the explored table is the root alone.
C8_NoneIffNothingCovers ==
    /\ call = "find_optimal_route" =>
          (route = None <=>
              /\ ~Covers(candies, target)
              /\ \A i \in Indices(combinations) : ~Covers(BasketAt(combinations, i), target))
    /\ (pc = "done" /\ NoRuleApplies) => combinations = << <<candies, None>> >>

\* C8 witness: after an explore() on which no rule applied, a target the start
\* does not contain is answered None
C8_Witness ==
    /\ call = "find_optimal_route"
    /\ pc = "done"
    /\ NoRuleApplies
    /\ NonNegative(candies)
    /\ Sum(candies) > 0
    /\ ~Covers(candies, target)
    /\ route = None

\* C9: when the start contains the target the route is empty, whatever the table holds.
C9_EmptyRouteWhenStartCovers ==
    (call = "find_optimal_route" /\ Covers(candies, target)) => route = Some(<<>>)

\* C9 witness: the start contains a non-empty target, and so does an explored
\* entry of a larger total
C9_Witness ==
    /\ call = "find_optimal_route"
    /\ pc = "done"
    /\ target # none
    /\ Covers(candies, target)
    /\ route = Some(<<>>)
    /\ \E i \in Indices(combinations) :
          /\ Covers(BasketAt(combinations, i), target)
          /\ Sum(BasketAt(combinations, i)) > Sum(candies)

\* C10 (as claimed): after explore(), len_from_combination is 0 at the root's
\* index and 1 at the index of an entry whose parent is the root.
C10_LenCountsTrades ==
    (call = "len_from_combination" /\ pc = "done") =>
        /\ index_arg = 0 => len_ret = 0
        /\ (/\ index_arg \in Indices(combinations)
            /\ ~IsRoot(combinations, index_arg)
            /\ ParentIndex(combinations, index_arg) = 0) => len_ret = 1

\* C10 (amended): after explore(), len_from_combination is 1 at the root's
\* index and 2 at the index of an entry whose parent is the root: it counts
\* the entries on the chain, the one it starts from included.
C10_LenCountsEntries ==
    (call = "len_from_combination" /\ pc = "done") =>
        /\ index_arg = 0 => len_ret = 1
        /\ (/\ index_arg \in Indices(combinations)
            /\ ~IsRoot(combinations, index_arg)
            /\ ParentIndex(combinations, index_arg) = 0) => len_ret = 2

\* C10 witness: len_from_combination was asked about a child of the root
C10_Witness ==
    /\ call = "len_from_combination"
    /\ pc = "done"
    /\ index_arg \in Indices(combinations)
    /\ ~IsRoot(combinations, index_arg)
    /\ ParentIndex(combinations, index_arg) = 0

\* C11: after explore(), stadistics() completes and prints its four numbers,
\* whatever the start, the cap and the rules, also when the table is the root
\* alone; it never reports "no combinations" then.
C11_StatisticsCompletes ==
    (call = "stadistics" /\ pc = "done") => outcome = "printed"

\* in table T the root is the start basket, and every other entry is
\* non-negative and within the cap
RootThenWithinCap(T) ==
    /\ T # <<>> => BasketAt(T, 0) = candies
    /\ \A i \in Indices(T) :
          i # 0 => NonNegative(BasketAt(T, i)) /\ Sum(BasketAt(T, i)) <= max_candies

\* C12: the start basket is recorded at index 0 even when its total is above
\* the cap; every other entry has five counts >= 0 and a total <= cap, at
\* every point of explore() and after it.
C12_CapBoundsNewEntries ==
    RootThenWithinCap(collections) /\ RootThenWithinCap(combinations)

\* C12 witness: in the middle of explore(), a non-negative start above the cap
\* at index 0 and entries found from it
C12_Witness ==
    /\ pc = "explore"
    /\ NonNegative(candies)
    /\ Sum(candies) > max_candies
    /\ Len(collections) >= 3
    /\ BasketAt(collections, 0) = candies

\* C13: an explore() called on an explorer that was explored before stores a
\* table identical to the one it replaces: same entries, same order, same parents.
C13_ExploreAgainSameTable ==
    [][(pc = "explore" /\ pc' = "done" /\ combinations # <<>>)
          => combinations' = combinations]_vars

\* C13 witness: a second explore() has emptied its frontier, the table of the
\* first one still stored
C13_Witness ==
    /\ pc = "explore"
    /\ queue = <<>>
    /\ Len(combinations) >= 3
    /\ Len(collections) >= 3

\* C14: B.trade(R) is rejected exactly when some count of B - R.give +
\* R.receive is negative; otherwise it returns that basket, count by count;
\* B is the same after the call.
C14_TradeRejectsIffNegative ==
    [][call' = "trade" =>
          /\ candies' = candies
          /\ trade_ret' = None <=> ~NonNegative(Apply(candies, trade_arg'))
          /\ trade_ret' # None => trade_ret' = <<Apply(candies, trade_arg')>>]_vars

\* C14 witness: a rule rejected on a basket without a negative count, on which
\* another rule of the list is accepted
C14_Witness ==
    /\ call = "trade"
    /\ NonNegative(candies)
    /\ Sum(candies) > 0
    /\ trade_ret = None
    /\ \E k \in DOMAIN trades : NonNegative(Apply(candies, trades[k]))

\* C15: the frontier is first-in-first-out: indices are popped in the order
\* they were enqueued, so the entries are expanded in increasing index order,
\* and every index still waiting was enqueued after the one popped last.
C15_FrontierIsFifo ==
    (pc = "explore" /\ last_index >= 0) =>
        /\ expanded = 0..last_index
        /\ \A k \in DOMAIN queue : last_index < queue[k]

\* following the parents from entry i of T, the root is met within n steps
RECURSIVE ReachesRoot(_, _, _)
ReachesRoot(T, i, n) ==
    /\ i \in Indices(T)
    /\ \/ IsRoot(T, i)
       \/ n > 0 /\ ReachesRoot(T, ParentIndex(T, i), n - 1)

\* in table T index 0 is the start basket with no parent, and every other
\* entry has a parent at a smaller index and a chain that ends at the root
RootedTree(T) ==
    /\ T # <<>> => T[1] = <<candies, <<>>>>
    /\ \A i \in Indices(T) :
          i # 0 => /\ ~IsRoot(T, i)
                   /\ ParentIndex(T, i) \in 0..(i - 1)
                   /\ ReachesRoot(T, i, i)

\* C16: in every state of the table, index 0 holds the start basket with parent
\* root and is the only such entry; every other entry's parent index is
\* smaller than its own, so each chain reaches the root in at most i steps.
C16_ParentsPointBack == RootedTree(collections) /\ RootedTree(combinations)

\* C16 witness: in the middle of explore(), an entry whose parent is neither
\* the root nor the entry just before it
C16_Witness ==
    /\ pc = "explore"
    /\ queue # <<>>
    /\ \E i \in Indices(collections) :
          /\ ~IsRoot(collections, i)
          /\ ParentIndex(collections, i) > 0
          /\ ParentIndex(collections, i) < i - 1

\* C17: within one run of explore() the table only grows at its end: its
\* length never decreases and an entry, once at an index, stays unchanged
\* there; the stored table is the table as built.
C17_TableIsAppendOnly ==
    [][/\ (pc = "explore" /\ pc' = "explore") =>
              /\ Len(collections') >= Len(collections)
              /\ \A i \in DOMAIN collections : collections'[i] = collections[i]
       /\ (pc = "explore" /\ pc' = "done") => combinations' = collections]_vars

\* C17 witness: an expansion has added entries to a table that already held
\* more than the start basket
C17_Witness ==
    /\ pc = "explore"
    /\ last_index > 0
    /\ \E i \in Indices(collections) :
          ~IsRoot(collections, i) /\ ParentIndex(collections, i) = last_index

\* C18: whenever the table has a non-root entry, the "max trades" figure of
\* stadistics() is the largest number of trades on the parent chain of any
\* non-root entry.
C18_MaxTradesIsLongestChain ==
    (call = "stadistics" /\ outcome = "printed") =>
        /\ \E i \in Indices(combinations) : ~IsRoot(combinations, i)
        /\ stats.max_trades =
               Max({ChainTrades(combinations, i) :
                       i \in {n \in Indices(combinations) : ~IsRoot(combinations, n)}})

\* C18 witness: statistics printed for a table whose longest chain has three
\* trades or more and in which some chain is shorter than the longest
C18_Witness ==
    /\ call = "stadistics"
    /\ outcome = "printed"
    /\ stats.max_trades >= 3
    /\ \E i \in Indices(combinations) :
          /\ ~IsRoot(combinations, i)
          /\ ChainTrades(combinations, i) < stats.max_trades

\* the positions in the rule list of the rules that turn basket b into basket d
Yielding(b, d) == {k \in DOMAIN trades : Apply(b, trades[k]) = d}

\* a standard rule: three of one kind for one of another kind
IsStandard(r) ==
    \E a, b \in 0..4 :
        /\ a # b
        /\ r.give = add_by_index(none, a, 3)
        /\ r.receive = add_by_index(none, b, 1)

\* the rule list is the custom rules followed by the 20 standard rules
CustomThenStandard ==
    /\ Len(trades) >= 20
    /\ \A k \in DOMAIN trades :
          IF k <= Len(trades) - 20 THEN trades[k] \in OrderPool \cup CustomPool
          ELSE IsStandard(trades[k])
    /\ \A k, n \in (Len(trades) - 19)..Len(trades) : k # n => trades[k] # trades[n]

\* in table T every entry records the first rule of the list that yields its
\* basket from its parent's basket, and the entries of one parent are in the
\* order of those rules and next to each other
InRuleOrder(T) ==
    /\ \A i \in Indices(T) :
          ~IsRoot(T, i) =>
              LET ks == Yielding(BasketAt(T, ParentIndex(T, i)), BasketAt(T, i))
              IN  ks # {} /\ ParentRule(T, i) = trades[Min(ks)]
    /\ \A i, j \in Indices(T) :
          (/\ i < j
           /\ ~IsRoot(T, i)
           /\ ~IsRoot(T, j)
           /\ ParentIndex(T, i) = ParentIndex(T, j)) =>
              /\ Min(Yielding(BasketAt(T, ParentIndex(T, i)), BasketAt(T, i)))
                     < Min(Yielding(BasketAt(T, ParentIndex(T, j)), BasketAt(T, j)))
              /\ \A n \in i..j : ParentIndex(T, n) = ParentIndex(T, i)

\* C19: the rule list is the custom rules followed by the 20 standard rules;
\* the baskets found when an entry is expanded are appended in rule-list order,
\* and the rule recorded with a new entry is the first rule of the list that
\* yields its basket from the expanded entry.
C19_RulesTriedInListOrder ==
    /\ CustomThenStandard
    /\ InRuleOrder(collections)
    /\ InRuleOrder(combinations)

\* C19 witness: an expansion has added two entries or more, one of them a
\* basket that two different rules of the list yield from the expanded entry
C19_Witness ==
    /\ pc = "explore"
    /\ last_index >= 0
    /\ \E i, j \in Indices(collections) :
          /\ i # j
          /\ ~IsRoot(collections, i)
          /\ ~IsRoot(collections, j)
          /\ ParentIndex(collections, i) = last_index
          /\ ParentIndex(collections, j) = last_index
          /\ \E k, n \in Yielding(BasketAt(collections, last_index),
                                  BasketAt(collections, i)) :
                trades[k] # trades[n]

\* the indices waiting on the frontier q
Waiting(q) == {q[k] : k \in DOMAIN q}

\* at a loop boundary of explore(): no index waits twice, the indices waiting
\* are those of the entries not expanded yet, and the seen-set is the set of
\* the baskets of the table
LoopBoundary(q, T, done, seen) ==
    /\ \A k, n \in DOMAIN q : k # n => q[k] # q[n]
    /\ done \subseteq Indices(T)
    /\ Waiting(q) = Indices(T) \ done
    /\ seen = Baskets(T)

\* C20: during explore() an index is put on the frontier when its entry is
\* created and never again, and is popped once; at every loop boundary the
\* frontier holds the indices of the entries not expanded yet and the seen-set
\* is the set of baskets of the table; when explore() ends every entry of the
\* table has been expanded.
C20_EachIndexOnceOnFrontier ==
    [][/\ pc' = "explore" => LoopBoundary(queue', collections', expanded', known_sets')
       /\ (pc = "explore" /\ pc' = "explore") =>
              /\ last_index' \in Waiting(queue)
              /\ last_index' \notin expanded
              /\ expanded' = expanded \cup {last_index'}
              /\ Waiting(queue') = (Waiting(queue) \ {last_index'})
                                      \cup (Indices(collections') \ Indices(collections))
       /\ (pc = "explore" /\ pc' = "done") =>
              /\ queue = <<>>
              /\ expanded' = expanded
              /\ expanded' = Indices(combinations')]_vars

\* C20 witness: in the middle of explore(), two entries or more expanded and
\* two or more waiting, one of them created by the last expansion
C20_Witness ==
    /\ pc = "explore"
    /\ Cardinality(expanded) >= 2
    /\ Len(queue) >= 2
    /\ \E k \in DOMAIN queue :
          /\ ~IsRoot(collections, queue[k])
          /\ ParentIndex(collections, queue[k]) = last_index

====
